---- MODULE Spec2Model ----
(***************************************************************************)
(* Tick-driven event scheduler, agent movement and tool-call coordination  *)
(* of the path-finding experiment (src/src/events.rs, src/src/agent.rs,    *)
(* src/src/app.rs).                                                        *)
(*                                                                         *)
(* Time is counted in ticks (TICK_RATE, 500 ms).  One frame of             *)
(* MyApp::update is a chain of steps selected by pc; the spawned streaming *)
(* tasks run between frames (pc = "idle").                                 *)
(***************************************************************************)
EXTENDS Integers, Sequences, FiniteSets, TLC

VARIABLES
    events,                     \* EventQueue.events (the live set), in queue order
    completed,                  \* EventQueue.completed (the outcome log)
    counter,                    \* EVENT_COUNTER
    map,                        \* MyApp.map: cell -> TileKind
    pos,                        \* Agent.x, Agent.y
    pending_moves,              \* Agent.pending_moves
    movement_active,            \* Agent.movement_active
    next_step_at,               \* Agent.next_step_at (<<>> is None)
    current_target,             \* Agent.current_target (<<>> is None)
    logs,                       \* Agent.logs
    chat_history,               \* Agent.chat_history
    tool_callbacks,             \* MyApp.tool_callbacks (hand-off queue)
    log_callbacks,              \* MyApp.log_callbacks
    pending_tool_executions,    \* MyApp.pending_tool_executions
    agent_running,              \* MyApp.agent_running
    should_continue_execution,  \* MyApp.should_continue_execution
    llm_status,                 \* MyApp.llm_status_callback
    accumulated_time,           \* MyApp.accumulated_time
    now,                        \* Instant::now() at the last frame (MyApp.last_tick)
    rounds,                     \* spawned execute_instruction tasks whose stream is open
    pc,                         \* position inside MyApp::update
    cur,                        \* process_tick: scheduled_event and result (<<>> outside)
    draining,                   \* update: the drained tool callbacks still to dispatch
    call_clock,                 \* SystemTime::now() as read for tool_call_id
    cancels,                    \* history: number of user cancellations so far
    started,                    \* history: number of rounds spawned so far
    dispatched,                 \* history: tool calls handed to handle_tool_call
    proposed,                   \* history: number of move steps proposed so far
    removed                     \* history: ids removed from the queue by cancellation

vars == <<events, completed, counter, map, pos, pending_moves, movement_active,
          next_step_at, current_target, logs, chat_history, tool_callbacks, log_callbacks,
          pending_tool_executions, agent_running, should_continue_execution,
          llm_status, accumulated_time, now, rounds, pc, cur, draining,
          call_clock, cancels, started, dispatched, proposed, removed>>

----------------------------------------------------------------------------
(* Bounds of the model *)

MapW == 2
MapH == 2
MaxSteps == 2
MaxRounds == 2
MaxCalls == 1
MaxDeltas == 2
MaxDelta == 2
MaxTime == 1
MaxCancels == 1
MaxMoves == 2
MaxIds == 2
MaxLog == 2
MaxClock == 1
MaxSeqCalls == 2
MaxToolLog == 3

(* Constants of the program *)

TickRate == 1
AgentId == 1
MaxMoveSteps == 5
RecentLogs == 20

MoveInterval == TickRate * 2

----------------------------------------------------------------------------
(* Option<T> is a sequence of length at most one *)

None == <<>>
Some(v) == <<v>>
IsSome(o) == Len(o) = 1
Unwrap(o) == o[1]

Min(a, b) == IF a <= b THEN a ELSE b

RECURSIVE SeqsUpTo(_, _)
SeqsUpTo(S, n) ==
    IF n = 0 THEN {<<>>}
    ELSE LET shorter == SeqsUpTo(S, n - 1)
         IN  shorter \cup {Append(s, e) : s \in {t \in shorter : Len(t) = n - 1}, e \in S}

Range(s) == {s[i] : i \in 1..Len(s)}

RemoveAt(s, p) == SubSeq(s, 1, p - 1) \o SubSeq(s, p + 1, Len(s))

----------------------------------------------------------------------------
(* map.rs: the grid *)

TileKind == {"Empty", "Wall", "Water", "Grass", "Sand", "Trail", "Tree", "Custom"}

Cells == (0..(MapW - 1)) \X (0..(MapH - 1))

\* TileKind::is_traversable
TileIsTraversable(k) == k \in {"Empty", "Grass", "Sand", "Trail"}

\* TileKind::name
TileName(k) ==
    CASE k = "Empty" -> "empty"
      [] k = "Wall" -> "wall"
      [] k = "Water" -> "water"
      [] k = "Grass" -> "grass"
      [] k = "Sand" -> "sand"
      [] k = "Trail" -> "grass"
      [] k = "Tree" -> "tree"
      [] k = "Custom" -> "custom"

\* GridMap::in_bounds (usize coordinates)
InBounds(x, y) == x >= 0 /\ y >= 0 /\ x < MapW /\ y < MapH

\* GridMap::is_traversable: get(x, y).map(is_traversable).unwrap_or(false)
IsTraversable(m, x, y) == IF InBounds(x, y) THEN TileIsTraversable(m[<<x, y>>]) ELSE FALSE

\* GridMap::set
MapSet(m, x, y, k) == IF InBounds(x, y) THEN [m EXCEPT ![<<x, y>>] = k] ELSE m

\* A grass map with one wall in the far corner and the agent in the near one.
InitMap == [c \in Cells |-> IF c = <<MapW - 1, MapH - 1>> THEN "Wall" ELSE "Grass"]
InitPos == <<0, 0>>

----------------------------------------------------------------------------
(* agent.rs: directions and one move step *)

Directions == {"up", "down", "left", "right"}

\* Direction::apply on i32: saturating_sub(1) of 0 is -1
Apply(d, x, y, w, h) ==
    CASE d = "up" -> <<x, y - 1>>
      [] d = "down" -> <<x, Min(y + 1, h - 1)>>
      [] d = "left" -> <<x - 1, y>>
      [] d = "right" -> <<Min(x + 1, w - 1), y>>

Log(kind, text) == [kind |-> kind, text |-> text]

ErrEdge == "ABORT: Movement blocked - edge of map"
ErrBlocked == "ABORT: Movement blocked by tile"
ErrUnknownAgent == "Unknown agent id"

Ok == [ok |-> TRUE, err |-> ""]
Err(e) == [ok |-> FALSE, err |-> e]

\* err_msg.starts_with("ABORT:")
StartsWithAbort(e) == e \in {ErrEdge, ErrBlocked}

\* execute_move_step without the traversability check
ExecuteMoveStep_through(d, p, m, lg) ==
    LET n == Apply(d, p[1], p[2], MapW, MapH)
    IN  IF n[1] < 0 \/ n[2] < 0 \/ n[1] >= MapW \/ n[2] >= MapH
        THEN [result |-> Err(ErrEdge), pos |-> p, map |-> m,
              logs |-> Append(lg, Log("Error", "Movement blocked: edge of map"))]
        ELSE [result |-> Ok, pos |-> n, map |-> MapSet(m, p[1], p[2], "Trail"),
              logs |-> Append(lg, Log("Movement", d))]

\* Agent::execute_move_step: the result and the agent, map and log it leaves
ExecuteMoveStep(d, p, m, lg) ==
    LET n == Apply(d, p[1], p[2], MapW, MapH)
        nx == n[1]
        ny == n[2]
    IN  IF nx < 0 \/ ny < 0 \/ nx >= MapW \/ ny >= MapH
        THEN [result |-> Err(ErrEdge), pos |-> p, map |-> m,
              logs |-> Append(lg, Log("Error", "Movement blocked: edge of map"))]
        ELSE IF ~IsTraversable(m, nx, ny)
        THEN [result |-> Err(ErrBlocked), pos |-> p, map |-> m,
              logs |-> Append(lg, Log("Error", "Movement blocked by tile"))]
        ELSE [result |-> Ok, pos |-> n, map |-> MapSet(m, p[1], p[2], "Trail"),
              logs |-> Append(lg, Log("Movement", d))]

----------------------------------------------------------------------------
(* events.rs: the event queue *)

AgentMove(a, d) == [kind |-> "AgentMove", agent_id |-> a, direction |-> d, ticks |-> 0]
Delay(t) == [kind |-> "Delay", agent_id |-> 0, direction |-> "none", ticks |-> t]

\* ScheduledEvent::new with EventId::new() = id
ScheduledEvent(id, event, t, delay) ==
    [id |-> id, event |-> event, execute_at |-> t + delay, status |-> "Pending"]

\* is_ready that never reports an event ready
IsReady_never(e, t) == FALSE

\* ScheduledEvent::is_ready
IsReady(e, t) == t >= e.execute_at

\* submit with an EventId::new that does not advance the counter
Submit_same(evs, ctr, event, t, delay) ==
    [events |-> Append(evs, ScheduledEvent(ctr, event, t, delay)), counter |-> ctr,
     id |-> ctr]

\* EventQueue::submit: the queue and the counter after it; the id is the old counter
Submit(evs, ctr, event, t, delay) ==
    [events |-> Append(evs, ScheduledEvent(ctr, event, t, delay)), counter |-> ctr + 1,
     id |-> ctr]

\* EventQueue::submit_sequence: the loop over the events, from index k
RECURSIVE SubmitLoop(_, _, _, _, _, _, _, _)
SubmitLoop(evs, ctr, list, k, t, current_delay, delay_between, ids) ==
    IF k > Len(list) THEN [events |-> evs, counter |-> ctr, ids |-> ids]
    ELSE LET s == Submit(evs, ctr, list[k], t, current_delay)
         IN  SubmitLoop(s.events, s.counter, list, k + 1, t,
                        current_delay + delay_between, delay_between, Append(ids, s.id))

\* submit_sequence that gives every step the delay 0
SubmitSequence_flat(evs, ctr, list, t, delay_between) ==
    SubmitLoop(evs, ctr, list, 1, t, 0, 0, <<>>)

SubmitSequence(evs, ctr, list, t, delay_between) ==
    SubmitLoop(evs, ctr, list, 1, t, 0, delay_between, <<>>)

\* EventQueue::cancel_events
CancelEvents(evs, ids) == SelectSeq(evs, LAMBDA e : e.id \notin ids)

\* cancel_agent_events that removes nothing
CancelAgentEvents_none(evs, a) == evs

\* EventQueue::cancel_agent_events
CancelAgentEvents(evs, a) ==
    SelectSeq(evs, LAMBDA e : IF e.event.kind = "AgentMove" THEN e.event.agent_id # a
                              ELSE TRUE)

\* the position of the last ready Pending event instead of the first
ReadyPos_last(evs, t) ==
    LET ready == {i \in 1..Len(evs) : IsReady(evs[i], t) /\ evs[i].status = "Pending"}
    IN  IF ready = {} THEN 0 ELSE CHOOSE i \in ready : \A j \in ready : i >= j

\* position(|e| e.is_ready() && e.status == Pending), 0 when there is none
ReadyPos(evs, t) ==
    LET ready == {i \in 1..Len(evs) : IsReady(evs[i], t) /\ evs[i].status = "Pending"}
    IN  IF ready = {} THEN 0 ELSE CHOOSE i \in ready : \A j \in ready : i <= j

\* pop_ready that leaves the returned event Pending in the queue
PopReady_keep(evs, t) ==
    LET p == ReadyPos(evs, t)
    IN  IF p = 0 THEN [event |-> None, events |-> evs]
        ELSE [event |-> Some([evs[p] EXCEPT !.status = "Processing"]),
              events |-> Append(RemoveAt(evs, p), evs[p])]

\* EventQueue::pop_ready
PopReady(evs, t) ==
    LET p == ReadyPos(evs, t)
    IN  IF p = 0 THEN [event |-> None, events |-> evs]
        ELSE LET e == [evs[p] EXCEPT !.status = "Processing"]
             IN  [event |-> Some(e), events |-> Append(RemoveAt(evs, p), e)]

\* position(|e| e.id == id), 0 when there is none
IdPos(evs, id) ==
    LET at == {i \in 1..Len(evs) : evs[i].id = id}
    IN  IF at = {} THEN 0 ELSE CHOOSE i \in at : \A j \in at : i <= j

\* complete that records the result and leaves the event in the queue
Complete_keep(evs, comp, id, result) ==
    [events |-> evs, completed |-> Append(comp, [id |-> id, result |-> result])]

\* EventQueue::complete
Complete(evs, comp, id, result) ==
    LET p == IdPos(evs, id)
    IN  [events |-> IF p = 0 THEN evs ELSE RemoveAt(evs, p),
         completed |-> Append(comp, [id |-> id, result |-> result])]

\* EventQueue::pending_count
PendingCount(evs) == Len(evs)

\* is_complete that is satisfied as soon as one of the ids has left the queue
IsComplete_any(p, evs) ==
    \E id \in Range(p.event_ids) : ~(\E i \in 1..Len(evs) : evs[i].id = id)

\* PendingToolExecution::is_complete
IsComplete(p, evs) == ~(\E i \in 1..Len(evs) : evs[i].id \in Range(p.event_ids))

\* PendingToolExecution::get_event_results
GetEventResults(p, comp) ==
    LET found(id) == {i \in 1..Len(comp) : comp[i].id = id}
        first(id) == CHOOSE i \in found(id) : \A j \in found(id) : i <= j
        with == SelectSeq(p.event_ids, LAMBDA id : found(id) # {})
    IN  [k \in 1..Len(with) |-> comp[first(with[k])]]

----------------------------------------------------------------------------
(* serde_json values and argument text *)

\* Value::Null, and Value::Object with the keys the tools read
Null == [kind |-> "Null", steps |-> None, target |-> None, agent_id |-> None]
Object(steps) == [kind |-> "Object", steps |-> steps, target |-> None, agent_id |-> None]

\* The step lists a model proposes in {"steps": [...]}
StepLists == SeqsUpTo(Directions, MaxSteps)

\* Argument text is the sequence of the complete JSON documents written in it:
\* serde_json::to_string writes one, String::push_str concatenates.
ToText(v) == <<v>>

\* serde_json::from_str::<Value>(&args_buf).unwrap_or(Value::Null): exactly one
\* document parses; the empty text and trailing characters are errors
ParseArgs(text) == IF Len(text) = 1 THEN text[1] ELSE Null

\* if let Value::Object(map) = parsed { map.insert("agent_id", agent_id) }
InjectAgentId(v, a) == IF v.kind = "Object" THEN [v EXCEPT !.agent_id = Some(a)] ELSE v

----------------------------------------------------------------------------
(* openrouter.rs and Agent::execute_instruction: one round's stream *)

Content == [type |-> "Content", name |-> None, arguments_delta |-> None]
StreamErr == [type |-> "Err", name |-> None, arguments_delta |-> None]
ToolCallDelta(n, a) == [type |-> "ToolCallDelta", name |-> n, arguments_delta |-> a]

\* The tool calls a model proposes, each carried by one delta
Proposals ==
    {ToolCallDelta(Some("move_agent"), Some(ToText(Object(Some(s))))) : s \in StepLists}
    \cup {ToolCallDelta(Some("get_position"), Some(ToText(Object(None))))}

\* open_router_event_stream: an Err item ends the stream (the ? in stream!)
StreamsOf(items) ==
    {s \in SeqsUpTo(items, MaxDeltas) : \A i \in 1..Len(s) : s[i].type = "Err" => i = Len(s)}

\* The streams of a round that may propose tool calls; the rounds beyond them
\* close with an empty stream
Streams == StreamsOf(Proposals \cup {Content, StreamErr})
QuietStreams == {<<>>}

\* The streams that carry at most one tool call of at most one move step
BriefStreams ==
    {s \in Streams :
       /\ Len(s) <= 1
       /\ \A i \in 1..Len(s) :
             /\ s[i].type = "ToolCallDelta"
             /\ LET doc == Unwrap(s[i].arguments_delta)[1]
                IN  IsSome(doc.steps) => Len(Unwrap(doc.steps)) <= 1}

\* The while-let loop of the spawned task, from item k on
RECURSIVE Accumulate(_, _, _)
Accumulate(stream, k, acc) ==
    IF k > Len(stream) THEN acc
    ELSE LET evt == stream[k]
             next ==
                 CASE evt.type = "Content" -> [acc EXCEPT !.content_buf = TRUE]
                   [] evt.type = "ToolCallDelta" ->
                        [acc EXCEPT
                           !.name_buf = IF IsSome(evt.name) THEN evt.name ELSE @,
                           !.args_buf = IF IsSome(evt.arguments_delta)
                                        THEN @ \o Unwrap(evt.arguments_delta) ELSE @]
                   [] evt.type = "Err" ->
                        [acc EXCEPT !.logged = Append(@, Log("Error", "Stream error"))]
         IN  Accumulate(stream, k + 1, next)

\* The argument text of the last tool call of the stream alone
RECURSIVE LastCallText(_, _)
LastCallText(stream, k) ==
    IF k = 0 THEN <<>>
    ELSE IF stream[k].type = "ToolCallDelta" /\ IsSome(stream[k].arguments_delta)
    THEN IF IsSome(stream[k].name) THEN Unwrap(stream[k].arguments_delta)
         ELSE LastCallText(stream, k - 1) \o Unwrap(stream[k].arguments_delta)
    ELSE IF stream[k].type = "ToolCallDelta" /\ IsSome(stream[k].name) THEN <<>>
    ELSE LastCallText(stream, k - 1)

\* How many move steps the tool calls of the stream propose, from item k on
RECURSIVE StepsIn(_, _)
StepsIn(stream, k) ==
    IF k > Len(stream) THEN 0
    ELSE LET text == IF IsSome(stream[k].arguments_delta)
                     THEN Unwrap(stream[k].arguments_delta) ELSE <<>>
             n == IF text # <<>> /\ IsSome(text[1].steps) THEN Len(Unwrap(text[1].steps))
                  ELSE 0
         IN  n + StepsIn(stream, k + 1)

\* The streams the n-th spawned round (from 0) may close with when so many
\* move steps have been proposed before: the first MaxCalls rounds may carry
\* tool calls, with at most MaxMoves steps proposed in all
RoundStreams(n, before) ==
    {s \in IF n < MaxCalls THEN Streams ELSE QuietStreams :
       before + StepsIn(s, 1) <= MaxMoves}

\* The same with brief streams for the first MaxSeqCalls rounds
SeqStreams(n, before) ==
    {s \in IF n < MaxSeqCalls THEN BriefStreams ELSE QuietStreams :
       before + StepsIn(s, 1) <= MaxMoves}

\* The step lists around the limits of move_agent
WideSteps ==
    {<<>>, <<"up">>, <<"north">>, <<"right", "north">>,
     [k \in 1..MaxMoveSteps |-> IF k % 2 = 1 THEN "right" ELSE "left"],
     [k \in 1..(MaxMoveSteps + 1) |-> IF k % 2 = 1 THEN "right" ELSE "left"]}

\* One move_agent call with such a list, or without steps, for the first round
WideStreams(n) ==
    IF n = 0
    THEN {<<ToolCallDelta(Some("move_agent"), Some(ToText(Object(Some(st)))))>> :
            st \in WideSteps}
         \cup {<<ToolCallDelta(Some("move_agent"), Some(ToText(Object(None))))>>}
    ELSE QuietStreams

\* The body of the spawned task once its stream has closed: what it pushes to
\* log_callback and tool_callback
RoundOutput(stream, epoch) ==
    LET acc == Accumulate(stream, 1, [name_buf |-> None, args_buf |-> <<>>,
                                      content_buf |-> FALSE, logged |-> <<>>])
        thinking == IF acc.content_buf THEN <<Log("AgentThinking", "content")>> ELSE <<>>
        parsed == InjectAgentId(ParseArgs(acc.args_buf), AgentId)
    IN  IF IsSome(acc.name_buf)
        THEN [logged |-> acc.logged \o thinking \o <<Log("ToolCall", Unwrap(acc.name_buf))>>,
              calls |-> <<[agent_id |-> AgentId, name |-> Unwrap(acc.name_buf),
                           args |-> parsed, epoch |-> epoch,
                           own |-> LastCallText(stream, Len(stream))]>>]
        ELSE [logged |-> acc.logged \o thinking, calls |-> <<>>]

----------------------------------------------------------------------------
(* agent.rs: tool handlers *)

ToolOk(msg) == [ok |-> TRUE, msg |-> msg]
ToolErr(msg) == [ok |-> FALSE, msg |-> msg]

\* Direction::from_str accepts the four names (in any case)
ValidDirection(s) == s \in Directions

\* handle_move_agent_tool without the test of the number of steps
HandleMoveAgentTool_any(args, p, st) ==
    IF ~IsSome(args.steps) THEN [result |-> ToolErr("missing steps"), agent |-> st]
    ELSE LET steps == Unwrap(args.steps)
             targeted == [st EXCEPT !.current_target = args.target]
         IN  IF \E i \in 1..Len(steps) : steps[i] \notin Directions
             THEN [result |-> ToolErr("Invalid direction"), agent |-> targeted]
             ELSE [result |-> ToolOk(""),
                   agent |-> [targeted EXCEPT
                                !.pending_moves = steps,
                                !.movement_active = TRUE,
                                !.next_step_at = Some(now),
                                !.logs = Append(@, Log("Info", "Preparing movement steps"))]]

\* Agent::handle_move_agent_tool on the agent fields st
HandleMoveAgentTool(args, p, st) ==
    IF ~IsSome(args.steps) THEN [result |-> ToolErr("missing steps"), agent |-> st]
    ELSE LET steps == Unwrap(args.steps)
             targeted == [st EXCEPT !.current_target = args.target]
         IN  IF Len(steps) = 0 \/ Len(steps) > MaxMoveSteps
             THEN [result |-> ToolErr("steps must be 1..=5"), agent |-> st]
             ELSE IF \E i \in 1..Len(steps) : ~ValidDirection(steps[i])
             THEN [result |-> ToolErr("Invalid direction"), agent |-> targeted]
             ELSE [result |-> ToolOk(""),
                   agent |-> [targeted EXCEPT
                                !.pending_moves = steps,
                                !.movement_active = TRUE,
                                !.next_step_at = Some(now),
                                !.logs = Append(@, Log("Info", "Preparing movement steps"))]]

\* A position query that fails
HandleGetPositionTool_err(p) == ToolErr(ToString(p))

\* Agent::handle_get_position_tool
HandleGetPositionTool(p) == ToolOk(ToString(p))

\* The neighbour of p in direction d is on the map and traversable
OpenDirection(d, p, m) ==
    LET n == Apply(d, p[1], p[2], MapW, MapH)
    IN  /\ n[1] >= 0 /\ n[2] >= 0 /\ n[1] < MapW /\ n[2] < MapH
        /\ IsTraversable(m, n[1], n[2])

\* Agent::handle_get_available_directions_tool
HandleGetAvailableDirectionsTool(p, m) ==
    LET Valid(d) == OpenDirection(d, p, m)
    IN  ToolOk(ToString([position |-> p,
                         available_directions |->
                             SelectSeq(<<"up", "down", "left", "right">>, Valid)]))

\* Agent::handle_get_bearings_tool on the agent fields st
HandleGetBearingsTool(args, p, m, st) ==
    LET target == args.target
        Open(d) == OpenDirection(d, p, m)
        Blocked(d) == ~OpenDirection(d, p, m)
        order == <<"up", "down", "left", "right">>
    IN  [result |-> ToolOk(ToString([position |-> p, target |-> target,
                                     blocking_directions |-> SelectSeq(order, Blocked),
                                     open_directions |-> SelectSeq(order, Open)])),
         agent |-> [st EXCEPT !.current_target = target]]

\* Agent::handle_tool_call on the agent fields st
HandleToolCall(name, args, p, st) ==
    IF name = "get_map_state" THEN [result |-> ToolOk("map state"), agent |-> st]
    ELSE IF name = "think" THEN [result |-> ToolOk("Recorded thoughts"), agent |-> st]
    ELSE IF ~IsSome(args.agent_id)
    THEN [result |-> ToolErr("missing agent_id"), agent |-> st]
    ELSE IF Unwrap(args.agent_id) # AgentId
    THEN [result |-> ToolErr("agent id mismatch"),
          agent |-> [st EXCEPT !.logs = Append(@, Log("ToolResultErr", name))]]
    ELSE LET r == CASE name = "move_agent" -> HandleMoveAgentTool(args, p, st)
                    [] name = "get_position" ->
                         [result |-> HandleGetPositionTool(p), agent |-> st]
                    [] name = "get_available_directions" ->
                         [result |-> HandleGetAvailableDirectionsTool(p, map),
                          agent |-> st]
                    [] name = "get_bearings" -> HandleGetBearingsTool(args, p, map, st)
                    [] OTHER -> [result |-> ToolErr("unknown tool"), agent |-> st]
         IN  [result |-> r.result,
              agent |-> [r.agent EXCEPT
                           !.logs = Append(@, Log(IF r.result.ok THEN "ToolResultOk"
                                                  ELSE "ToolResultErr", name))]]

\* Agent::take_pending_moves
TakePendingMoves(st) ==
    [moves |-> st.pending_moves,
     agent |-> [st EXCEPT !.pending_moves = <<>>, !.movement_active = FALSE,
                          !.next_step_at = None]]

\* Agent::process_movement_step: the status and the agent, position and map it
\* leaves (Duration::from_secs(1) is two tick periods)
ProcessMovementStep(st, p, m) ==
    LET stopped == [st EXCEPT !.movement_active = FALSE, !.next_step_at = None]
        aborted == [stopped EXCEPT !.pending_moves = <<>>]
    IN  IF ~st.movement_active
        THEN [status |-> "Completed", agent |-> st, pos |-> p, map |-> m]
        ELSE IF IsSome(st.next_step_at) /\ now < Unwrap(st.next_step_at)
        THEN [status |-> "StepSuccess", agent |-> st, pos |-> p, map |-> m]
        ELSE IF st.pending_moves = <<>>
        THEN [status |-> "Completed", agent |-> stopped, pos |-> p, map |-> m]
        ELSE LET dir == Head(st.pending_moves)
                 n == Apply(dir, p[1], p[2], MapW, MapH)
             IN  IF n[1] < 0 \/ n[2] < 0 \/ n[1] >= MapW \/ n[2] >= MapH
                 THEN [status |-> "OutOfBounds",
                       agent |-> [aborted EXCEPT !.logs =
                                    Append(@, Log("Error", "Movement aborted: edge of map"))],
                       pos |-> p, map |-> m]
                 ELSE IF ~IsTraversable(m, n[1], n[2])
                 THEN [status |-> "BlockedByTerrain",
                       agent |-> [aborted EXCEPT !.logs =
                                    Append(@, Log("Error", "Movement aborted: blocked by tile"))],
                       pos |-> p, map |-> m]
                 ELSE LET moved == Append(st.logs, Log("Movement", dir))
                          rest == Tail(st.pending_moves)
                      IN  IF rest = <<>>
                          THEN [status |-> "Completed",
                                agent |-> [stopped EXCEPT
                                             !.pending_moves = <<>>,
                                             !.logs = Append(moved,
                                                        Log("Info", "Movement completed"))],
                                pos |-> n, map |-> MapSet(m, p[1], p[2], "Trail")]
                          ELSE [status |-> "StepSuccess",
                                agent |-> [st EXCEPT
                                             !.pending_moves = rest,
                                             !.next_step_at = Some(now + 2 * TickRate),
                                             !.logs = moved],
                                pos |-> n, map |-> MapSet(m, p[1], p[2], "Trail")]

\* One entry of Agent.chat_history
Message(role, id, name, content) ==
    [role |-> role, tool_call_id |-> id, name |-> name, content |-> content]

\* Agent::add_assistant_tool_call
AddAssistantToolCall(ch, id, name) == Append(ch, Message("assistant", Some(id), name, ""))

\* add_tool_result that pushes the message twice
AddToolResult_twice(ch, id, name, result) ==
    Append(Append(ch, Message("tool", Some(id), name, result)),
           Message("tool", Some(id), name, result))

\* Agent::add_tool_result
AddToolResult(ch, id, name, result) == Append(ch, Message("tool", Some(id), name, result))

----------------------------------------------------------------------------
(* app.rs: result synthesis of a resolved pending execution *)

\* iter().rev().take(20)
Recent(lg) == SubSeq(lg, IF Len(lg) > RecentLogs THEN Len(lg) - RecentLogs + 1 ELSE 1, Len(lg))

\* msg.contains("Movement blocked") || msg.contains("ABORT") on an Error entry
IsMovementError(e) ==
    e.kind = "Error" /\ e.text \in {"Movement blocked: edge of map", "Movement blocked by tile"}

\* msg.contains("events cancelled") on an Info entry
IsCancelledInfo(e) == e.kind = "Info" /\ e.text = "Remaining movement events cancelled"

\* The result message built for the pending execution p
ResultMsg(p, comp, lg) ==
    LET recent == Recent(lg)
        had_errors == \E i \in 1..Len(recent) : IsMovementError(recent[i])
        cancelled == \E i \in 1..Len(recent) : IsCancelledInfo(recent[i])
        results == GetEventResults(p, comp)
        event_failures == SelectSeq(results, LAMBDA r : ~r.result.ok)
    IN  IF had_errors \/ cancelled \/ event_failures # <<>>
        THEN "(Errors)" ELSE "(Completed successfully)"

\* for idx in completed_indices.into_iter().rev(): remove and add the tool result
RECURSIVE ResolveLoop(_, _, _, _, _)
ResolveLoop(pend, idx, ch, evs, st) ==
    IF idx = 0 THEN [pending |-> pend, chat |-> ch]
    ELSE IF IsComplete(pend[idx], evs)
    THEN ResolveLoop(RemoveAt(pend, idx), idx - 1,
                     AddToolResult(ch, pend[idx].tool_call_id, pend[idx].tool_name,
                                   ResultMsg(pend[idx], st.completed, st.logs)),
                     evs, st)
    ELSE ResolveLoop(pend, idx - 1, ch, evs, st)

----------------------------------------------------------------------------
(* The state after MyApp::new *)

Init ==
    /\ events = <<>>
    /\ completed = <<>>
    /\ counter = 0
    /\ map = InitMap
    /\ pos = InitPos
    /\ pending_moves = <<>>
    /\ movement_active = FALSE
    /\ next_step_at = None
    /\ current_target = None
    /\ logs = <<>>
    /\ chat_history = <<>>
    /\ tool_callbacks = <<>>
    /\ log_callbacks = <<>>
    /\ pending_tool_executions = <<>>
    /\ agent_running = FALSE
    /\ should_continue_execution = FALSE
    /\ llm_status = FALSE
    /\ accumulated_time = 0
    /\ now = 0
    /\ rounds = <<>>
    /\ pc = "idle"
    /\ cur = None
    /\ draining = <<>>
    /\ call_clock = 0
    /\ cancels = 0
    /\ started = 0
    /\ dispatched = {}
    /\ proposed = 0
    /\ removed = {}

----------------------------------------------------------------------------
(* app.rs: MyApp::process_ticks and MyApp::process_tick *)

agentVars == <<pending_moves, movement_active, next_step_at, current_target>>
handoffVars == <<tool_callbacks, log_callbacks, rounds, llm_status>>
flagVars == <<agent_running, should_continue_execution>>
historyVars == <<cancels, started, dispatched, proposed, removed>>

\* The clock may pass MaxTime only while a scheduled action waits for its
\* tick, and at most MaxDelta beyond the time of that action.
MayAdvance(delta) ==
    \/ delta = 0
    \/ now + delta <= MaxTime
    \/ \E i \in 1..Len(events) : now + delta <= events[i].execute_at + MaxDelta

\* update is entered delta after the previous frame: the time accounting of
\* process_ticks
BeginFrame(delta) ==
    /\ pc = "idle"
    /\ MayAdvance(delta)
    /\ now' = now + delta
    /\ accumulated_time' = accumulated_time + delta
    /\ pc' = IF accumulated_time' >= TickRate THEN "tick" ELSE "drain"
    /\ UNCHANGED <<events, completed, counter, map, pos, logs, chat_history,
                   pending_tool_executions, cur, draining, call_clock>>
    /\ UNCHANGED <<agentVars, handoffVars, flagVars, historyVars>>

\* process_tick: pop_ready returns an event
PopReadyEvent ==
    /\ pc = "tick"
    /\ LET r == PopReady(events, now)
       IN  /\ IsSome(r.event)
           /\ events' = r.events
           /\ cur' = Some([event |-> Unwrap(r.event), result |-> Ok])
    /\ pc' = "execute"
    /\ UNCHANGED <<completed, counter, map, pos, logs, chat_history,
                   pending_tool_executions, accumulated_time, now, draining, call_clock>>
    /\ UNCHANGED <<agentVars, handoffVars, flagVars, historyVars>>

\* process_tick: the match on scheduled_event.event
ExecuteEvent ==
    /\ pc = "execute"
    /\ LET e == Unwrap(cur).event
           step == ExecuteMoveStep(e.event.direction, pos, map, logs)
           out == IF e.event.kind = "AgentMove"
                  THEN IF e.event.agent_id = AgentId THEN step
                       ELSE [result |-> Err(ErrUnknownAgent), pos |-> pos, map |-> map,
                             logs |-> logs]
                  ELSE [result |-> Ok, pos |-> pos, map |-> map, logs |-> logs]
       IN  /\ cur' = Some([event |-> e, result |-> out.result])
           /\ pos' = out.pos
           /\ map' = out.map
           /\ logs' = out.logs
           /\ pc' = IF ~out.result.ok /\ StartsWithAbort(out.result.err)
                       /\ e.event.kind = "AgentMove"
                    THEN "cancel" ELSE "complete"
    /\ UNCHANGED <<events, completed, counter, chat_history, pending_tool_executions,
                   accumulated_time, now, draining, call_clock>>
    /\ UNCHANGED <<agentVars, handoffVars, flagVars, historyVars>>

\* process_tick: the abort branch
CancelRemaining ==
    /\ pc = "cancel"
    /\ LET a == Unwrap(cur).event.event.agent_id
           kept == CancelAgentEvents(events, a)
       IN  /\ events' = kept
           /\ removed' = removed \cup
                  {[id |-> events[i].id, status |-> events[i].status] :
                     i \in {j \in 1..Len(events) : events[j].id \notin
                                                   {kept[k].id : k \in 1..Len(kept)}}}
    /\ logs' = Append(logs, Log("Info", "Remaining movement events cancelled"))
    /\ pc' = "complete"
    /\ UNCHANGED <<completed, counter, map, pos, chat_history, pending_tool_executions,
                   accumulated_time, now, cur, draining, call_clock>>
    /\ UNCHANGED <<agentVars, handoffVars, flagVars, cancels, started, dispatched, proposed>>

\* process_tick: event_queue.complete(scheduled_event.id, result)
CompleteEvent ==
    /\ pc = "complete"
    /\ LET c == Complete(events, completed, Unwrap(cur).event.id, Unwrap(cur).result)
       IN  /\ events' = c.events
           /\ completed' = c.completed
    /\ cur' = None
    /\ pc' = "tick"
    /\ UNCHANGED <<counter, map, pos, logs, chat_history, pending_tool_executions,
                   accumulated_time, now, draining, call_clock>>
    /\ UNCHANGED <<agentVars, handoffVars, flagVars, historyVars>>

\* process_tick returns (pop_ready has nothing); process_ticks takes the tick
\* off the accumulated time
EndTick ==
    /\ pc = "tick"
    /\ ~IsSome(PopReady(events, now).event)
    /\ accumulated_time' = accumulated_time - TickRate
    /\ pc' = IF accumulated_time' >= TickRate THEN "tick" ELSE "drain"
    /\ UNCHANGED <<events, completed, counter, map, pos, logs, chat_history,
                   pending_tool_executions, now, cur, draining, call_clock>>
    /\ UNCHANGED <<agentVars, handoffVars, flagVars, historyVars>>

----------------------------------------------------------------------------
(* app.rs: MyApp::update after process_ticks *)

AgentFields == [pending_moves |-> pending_moves, movement_active |-> movement_active,
                next_step_at |-> next_step_at,
                current_target |-> current_target, logs |-> logs]

\* Agent::execute_instruction up to spawn_local: the round that is spawned,
\* with the number of rounds spawned before it
SpawnRound == [epoch |-> cancels, nth |-> Min(started, MaxSeqCalls)]

\* update: the two drains of the hand-off queues
DrainCallbacks ==
    /\ pc = "drain"
    /\ logs' = logs \o log_callbacks
    /\ log_callbacks' = <<>>
    /\ draining' = tool_callbacks
    /\ tool_callbacks' = <<>>
    /\ pc' = "dispatch"
    /\ UNCHANGED <<events, completed, counter, map, pos, chat_history,
                   pending_tool_executions, accumulated_time, now, cur, call_clock,
                   rounds, llm_status>>
    /\ UNCHANGED <<agentVars, flagVars, historyVars>>

\* update: a drained tool call is skipped because execution was cancelled
DiscardToolCall ==
    /\ pc = "dispatch"
    /\ draining # <<>>
    /\ ~agent_running
    /\ logs' = Append(logs, Log("Info", "TOOL: Discarded tool call (execution cancelled)"))
    /\ draining' = Tail(draining)
    /\ UNCHANGED <<events, completed, counter, map, pos, chat_history,
                   pending_tool_executions, accumulated_time, now, pc, cur, call_clock>>
    /\ UNCHANGED <<agentVars, handoffVars, flagVars, historyVars>>

\* update: a drained tool call is dispatched to the agent.  SystemTime::now()
\* may or may not have moved on when the next call of the same drain reads it.
DispatchToolCall(tick) ==
    /\ pc = "dispatch"
    /\ draining # <<>>
    /\ agent_running
    /\ tick \/ Len(draining) > 1
    /\ LET cb == Head(draining)
           tool_call_id == call_clock
           h == HandleToolCall(cb.name, cb.args, pos, AgentFields)
           t == TakePendingMoves(h.agent)
           evs == [k \in 1..Len(t.moves) |-> AgentMove(AgentId, t.moves[k])]
           sub == SubmitSequence(events, counter, evs, now, MoveInterval)
           called == AddAssistantToolCall(chat_history, tool_call_id, cb.name)
           waits == h.result.ok /\ t.moves # <<>>
           after == IF h.result.ok THEN t.agent ELSE h.agent
       IN  /\ pending_moves' = after.pending_moves
           /\ movement_active' = after.movement_active
           /\ next_step_at' = after.next_step_at
           /\ current_target' = after.current_target
           /\ logs' = IF h.result.ok THEN after.logs
                      ELSE Append(after.logs, Log("Error", "Tool execution failed"))
           /\ events' = IF waits THEN sub.events ELSE events
           /\ counter' = IF waits THEN sub.counter ELSE counter
           /\ pending_tool_executions' =
                  IF waits
                  THEN Append(pending_tool_executions,
                              [tool_call_id |-> tool_call_id, tool_name |-> cb.name,
                               initial_result |-> h.result.msg, event_ids |-> sub.ids,
                               created_at |-> now])
                  ELSE pending_tool_executions
           /\ chat_history' =
                  IF waits THEN called
                  ELSE IF h.result.ok
                  THEN IF h.result.msg # ""
                       THEN AddToolResult(called, tool_call_id, cb.name, h.result.msg)
                       ELSE called
                  ELSE AddToolResult(called, tool_call_id, cb.name, "Error")
           /\ should_continue_execution' = IF waits THEN should_continue_execution ELSE TRUE
           /\ dispatched' = dispatched \cup
                  {[epoch |-> cb.epoch, at |-> cancels, name |-> cb.name,
                    event_ids |-> IF waits THEN sub.ids ELSE <<>>]}
    /\ call_clock' = IF tick THEN call_clock + 1 ELSE call_clock
    /\ draining' = Tail(draining)
    /\ UNCHANGED <<completed, map, pos, accumulated_time, now, pc, cur, agent_running,
                   cancels, started, proposed, removed>>
    /\ UNCHANGED handoffVars

\* update: pending tool executions whose events are done get their tool result
ResolvePending ==
    /\ pc = "dispatch"
    /\ draining = <<>>
    /\ LET r == ResolveLoop(pending_tool_executions, Len(pending_tool_executions),
                            chat_history, events, [completed |-> completed, logs |-> logs])
       IN  /\ pending_tool_executions' = r.pending
           /\ chat_history' = r.chat
           /\ should_continue_execution' =
                  IF Len(r.pending) < Len(pending_tool_executions) THEN TRUE
                  ELSE should_continue_execution
    /\ pc' = "input"
    /\ UNCHANGED <<events, completed, counter, map, pos, logs, accumulated_time, now,
                   cur, draining, call_clock, agent_running>>
    /\ UNCHANGED <<agentVars, handoffVars, historyVars>>

\* An Escape handler that also empties the queue
EscPressed_clear ==
    /\ pc = "input"
    /\ agent_running
    /\ cancels < MaxCancels
    /\ agent_running' = FALSE
    /\ should_continue_execution' = FALSE
    /\ llm_status' = FALSE
    /\ tool_callbacks' = <<>>
    /\ log_callbacks' = <<>>
    /\ logs' = Append(logs, Log("Info", "WARN: Execution cancelled by user (ESC)"))
    /\ cancels' = cancels + 1
    /\ events' = <<>>
    /\ pc' = "continue"
    /\ UNCHANGED <<completed, counter, map, pos, chat_history,
                   pending_tool_executions, accumulated_time, now, rounds, cur, draining,
                   call_clock, started, dispatched, proposed, removed>>
    /\ UNCHANGED agentVars

\* update: Escape was pressed while the agent is running
EscPressed ==
    /\ pc = "input"
    /\ agent_running
    /\ cancels < MaxCancels
    /\ agent_running' = FALSE
    /\ should_continue_execution' = FALSE
    /\ llm_status' = FALSE
    /\ tool_callbacks' = <<>>
    /\ log_callbacks' = <<>>
    /\ logs' = Append(logs, Log("Info", "WARN: Execution cancelled by user (ESC)"))
    /\ cancels' = cancels + 1
    /\ pc' = "continue"
    /\ UNCHANGED <<events, completed, counter, map, pos, chat_history,
                   pending_tool_executions, accumulated_time, now, rounds, cur, draining,
                   call_clock, started, dispatched, proposed, removed>>
    /\ UNCHANGED agentVars

\* update: no Escape, or Escape while the agent is not running
NoEsc ==
    /\ pc = "input"
    /\ pc' = "continue"
    /\ UNCHANGED <<events, completed, counter, map, pos, logs, chat_history,
                   pending_tool_executions, accumulated_time, now, cur, draining,
                   call_clock>>
    /\ UNCHANGED <<agentVars, handoffVars, flagVars, historyVars>>

\* The continuation condition without the two emptiness tests
MayContinue_flags == should_continue_execution /\ agent_running

\* The condition of the automatic continuation
MayContinue ==
    /\ should_continue_execution
    /\ agent_running
    /\ pending_tool_executions = <<>>
    /\ PendingCount(events) = 0

\* update: continue with an empty instruction
ContinueExecution ==
    /\ pc = "continue"
    /\ MayContinue
    /\ should_continue_execution' = FALSE
    /\ rounds' = Append(rounds, SpawnRound)
    /\ started' = started + 1
    /\ llm_status' = TRUE
    /\ pc' = "controls"
    /\ UNCHANGED <<events, completed, counter, map, pos, logs, chat_history,
                   tool_callbacks, log_callbacks, pending_tool_executions, agent_running,
                   accumulated_time, now, cur, draining, call_clock, cancels, dispatched,
                   proposed, removed>>
    /\ UNCHANGED agentVars

SkipContinue ==
    /\ pc = "continue"
    /\ ~MayContinue
    /\ pc' = "controls"
    /\ UNCHANGED <<events, completed, counter, map, pos, logs, chat_history,
                   pending_tool_executions, accumulated_time, now, cur, draining,
                   call_clock>>
    /\ UNCHANGED <<agentVars, handoffVars, flagVars, historyVars>>

\* draw_agent_controls: is_processing
IsProcessing == PendingCount(events) > 0 \/ pending_tool_executions # <<>>

\* draw_agent_controls: Run Instruction (or Shift+Enter) with a non-empty text
SubmitInstruction ==
    /\ pc = "controls"
    /\ ~IsProcessing
    /\ started < MaxRounds
    /\ agent_running' = TRUE
    /\ logs' = Append(logs, Log("UserInstruction", "instruction"))
    /\ chat_history' = Append(chat_history, Message("user", None, "", "instruction"))
    /\ rounds' = Append(rounds, SpawnRound)
    /\ started' = started + 1
    /\ llm_status' = TRUE
    /\ pc' = "idle"
    /\ UNCHANGED <<events, completed, counter, map, pos, tool_callbacks, log_callbacks,
                   pending_tool_executions, should_continue_execution, accumulated_time,
                   now, cur, draining, call_clock, cancels, dispatched, proposed,
                   removed>>
    /\ UNCHANGED agentVars

\* draw_agent_controls: nothing submitted; update returns
EndFrame ==
    /\ pc = "controls"
    /\ pc' = "idle"
    /\ UNCHANGED <<events, completed, counter, map, pos, logs, chat_history,
                   pending_tool_executions, accumulated_time, now, cur, draining,
                   call_clock>>
    /\ UNCHANGED <<agentVars, handoffVars, flagVars, historyVars>>

\* Between two frames the stream of round i closes and the spawned task runs
\* to its end
RoundClose(i, stream) ==
    /\ pc = "idle"
    /\ i \in 1..Len(rounds)
    /\ proposed' = proposed + StepsIn(stream, 1)
    /\ LET out == RoundOutput(stream, rounds[i].epoch)
       IN  /\ log_callbacks' = log_callbacks \o out.logged
           /\ tool_callbacks' = tool_callbacks \o out.calls
    /\ llm_status' = FALSE
    /\ rounds' = RemoveAt(rounds, i)
    /\ UNCHANGED <<events, completed, counter, map, pos, logs, chat_history,
                   pending_tool_executions, accumulated_time, now, pc, cur, draining,
                   call_clock, cancels, started, dispatched, removed>>
    /\ UNCHANGED <<agentVars, flagVars>>

Next ==
    \/ \E delta \in 0..MaxDelta : BeginFrame(delta)
    \/ PopReadyEvent
    \/ ExecuteEvent
    \/ CancelRemaining
    \/ CompleteEvent
    \/ EndTick
    \/ DrainCallbacks
    \/ DiscardToolCall
    \/ \E tick \in BOOLEAN : DispatchToolCall(tick)
    \/ ResolvePending
    \/ EscPressed
    \/ NoEsc
    \/ ContinueExecution
    \/ SkipContinue
    \/ SubmitInstruction
    \/ EndFrame
    \/ \E i \in 1..Len(rounds) : \E stream \in RoundStreams(rounds[i].nth, proposed) :
          RoundClose(i, stream)

Spec == Init /\ [][Next]_vars

----------------------------------------------------------------------------
(* events.rs: the public operations of EventQueue, called in any order *)

restVars == <<map, pos, logs, chat_history, pending_tool_executions, accumulated_time,
              pc, cur, draining, call_clock, proposed, cancels, started, dispatched>>

QAgents == {AgentId, AgentId + 1}
QEvents == {AgentMove(a, "up") : a \in QAgents} \cup {Delay(1)}
QIds == 0..(MaxIds - 1)
QResults == {Ok, Err(ErrEdge)}

QSubmit(event, delay) ==
    /\ counter < MaxIds
    /\ LET r == Submit(events, counter, event, now, delay)
       IN  events' = r.events /\ counter' = r.counter
    /\ UNCHANGED <<completed, now, removed, restVars, agentVars, handoffVars, flagVars>>

QSubmitSequence(list, delay_between) ==
    /\ counter + Len(list) <= MaxIds
    /\ LET r == SubmitSequence(events, counter, list, now, delay_between)
       IN  events' = r.events /\ counter' = r.counter
    /\ UNCHANGED <<completed, now, removed, restVars, agentVars, handoffVars, flagVars>>

QPopReady ==
    /\ events' = PopReady(events, now).events
    /\ UNCHANGED <<completed, counter, now, removed, restVars, agentVars, handoffVars,
                   flagVars>>

QComplete(id, result) ==
    /\ Len(completed) < MaxLog
    /\ LET c == Complete(events, completed, id, result)
       IN  events' = c.events /\ completed' = c.completed
    /\ UNCHANGED <<counter, now, removed, restVars, agentVars, handoffVars, flagVars>>

QCancelAgentEvents(a) ==
    /\ events' = CancelAgentEvents(events, a)
    /\ removed' = removed \cup
           {[id |-> events[i].id, status |-> events[i].status] :
              i \in {j \in 1..Len(events) :
                       events[j].event.kind = "AgentMove" /\ events[j].event.agent_id = a}}
    /\ UNCHANGED <<completed, counter, now, restVars, agentVars, handoffVars, flagVars>>

QCancelEvents(ids) ==
    /\ events' = CancelEvents(events, ids)
    /\ UNCHANGED <<completed, counter, now, removed, restVars, agentVars, handoffVars,
                   flagVars>>

QClear ==
    /\ events' = <<>>
    /\ completed' = <<>>
    /\ UNCHANGED <<counter, now, removed, restVars, agentVars, handoffVars, flagVars>>

\* Instant::now() moves on between two calls
QAdvance ==
    /\ now < MaxClock
    /\ now' = now + 1
    /\ UNCHANGED <<events, completed, counter, removed, restVars, agentVars, handoffVars,
                   flagVars>>

QNext ==
    \/ \E e \in QEvents, delay \in 0..1 : QSubmit(e, delay)
    \/ \E list \in SeqsUpTo({AgentMove(AgentId, "up"), Delay(1)}, 2) :
          \E delay_between \in {0, MoveInterval} : QSubmitSequence(list, delay_between)
    \/ QPopReady
    \/ \E id \in QIds, r \in QResults : QComplete(id, r)
    \/ \E a \in QAgents : QCancelAgentEvents(a)
    \/ \E ids \in SUBSET QIds : QCancelEvents(ids)
    \/ QClear
    \/ QAdvance

QSpec == Init /\ [][QNext]_vars

----------------------------------------------------------------------------
(* Fairness: a started frame runs to its end, and while scheduled actions  *)
(* wait the application keeps requesting repaints and the clock moves on   *)
(* (app.rs 547-554).                                                       *)

FrameSteps ==
    \/ PopReadyEvent \/ ExecuteEvent \/ CancelRemaining \/ CompleteEvent \/ EndTick
    \/ DrainCallbacks \/ DiscardToolCall \/ (\E tick \in BOOLEAN : DispatchToolCall(tick))
    \/ ResolvePending \/ EscPressed \/ NoEsc \/ ContinueExecution \/ SkipContinue
    \/ SubmitInstruction \/ EndFrame

Advance == \E delta \in 1..MaxDelta : BeginFrame(delta)

FairSpec == Spec /\ WF_vars(FrameSteps) /\ SF_vars(Advance)

----------------------------------------------------------------------------
(* The same program with two rounds that may carry a brief tool call each *)

SeqNext ==
    \/ \E delta \in 0..MaxDelta : BeginFrame(delta)
    \/ FrameSteps
    \/ \E i \in 1..Len(rounds) : \E stream \in SeqStreams(rounds[i].nth, proposed) :
          RoundClose(i, stream)

SeqSpec == Init /\ [][SeqNext]_vars

----------------------------------------------------------------------------
(* The same program with one round that carries a move_agent call whose     *)
(* step list is around the limits                                           *)

WideNext ==
    \/ \E delta \in 0..MaxDelta : BeginFrame(delta)
    \/ FrameSteps
    \/ \E i \in 1..Len(rounds) : \E stream \in WideStreams(rounds[i].nth) :
          RoundClose(i, stream)

WideSpec == Init /\ [][WideNext]_vars

----------------------------------------------------------------------------
(* The same program with one round that carries a call of any tool whose    *)
(* argument text is not one JSON document                                   *)

\* Argument text that serde_json::from_str rejects: nothing, or two documents
MalformedTexts == {<<>>, ToText(Object(None)) \o ToText(Object(None))}

CalledNames == {"get_map_state", "think", "move_agent", "get_position",
                "get_available_directions", "get_bearings"}

QueryNames == {"get_position", "get_available_directions", "get_bearings",
               "get_map_state"}

\* Argument text of a query: an object without or with a target
QueryTexts == {ToText(Object(None)),
               ToText([Object(None) EXCEPT !.target = Some(<<1, 0>>)])}

ArgStreams(n) ==
    IF n = 0
    THEN {<<ToolCallDelta(Some(name), Some(text))>> :
            name \in CalledNames, text \in MalformedTexts}
         \cup {<<ToolCallDelta(Some(name), Some(text))>> :
                 name \in QueryNames, text \in QueryTexts}
         \cup WideStreams(0)
    ELSE QuietStreams

ArgNext ==
    \/ \E delta \in 0..MaxDelta : BeginFrame(delta)
    \/ FrameSteps
    \/ \E i \in 1..Len(rounds) : \E stream \in ArgStreams(rounds[i].nth) :
          RoundClose(i, stream)

ArgSpec == Init /\ [][ArgNext]_vars

----------------------------------------------------------------------------
(* agent.rs: the public tool entry points of Agent, called in any order *)

frameVars == <<events, completed, counter, map, pos, chat_history,
               pending_tool_executions, accumulated_time, now, pc, cur, draining,
               call_clock>>

ToolNames == {"get_map_state", "think", "move_agent", "get_position",
              "get_available_directions", "get_bearings", "fly"}

\* The arguments of a call: not an object, or an object with or without
\* agent_id, steps and target
ToolArgs ==
    {Null} \cup
    [kind : {"Object"},
     steps : {None, Some(<<>>), Some(<<"up">>), Some(<<"up", "down">>), Some(<<"north">>)},
     target : {None, Some(<<1, 0>>)},
     agent_id : {None, Some(AgentId), Some(AgentId + 1)}]

\* handle_tool_call(name, args, map)
ToolCall(name, args) ==
    /\ Len(logs) < MaxToolLog
    /\ LET h == HandleToolCall(name, args, pos, AgentFields)
       IN  /\ pending_moves' = h.agent.pending_moves
           /\ movement_active' = h.agent.movement_active
           /\ next_step_at' = h.agent.next_step_at
           /\ current_target' = h.agent.current_target
           /\ logs' = h.agent.logs
    /\ UNCHANGED <<frameVars, handoffVars, flagVars, historyVars>>

\* take_pending_moves()
ToolTake ==
    /\ LET t == TakePendingMoves(AgentFields)
       IN  /\ pending_moves' = t.agent.pending_moves
           /\ movement_active' = t.agent.movement_active
           /\ next_step_at' = t.agent.next_step_at
    /\ UNCHANGED <<current_target, logs, frameVars, handoffVars, flagVars, historyVars>>

ToolNext ==
    \/ \E name \in ToolNames, args \in ToolArgs : ToolCall(name, args)
    \/ ToolTake

ToolSpec == Init /\ [][ToolNext]_vars

----------------------------------------------------------------------------
(* The two functions that execute one movement step, on every small map     *)

StepMaps == [Cells -> {"Grass", "Wall"}]

StepInit ==
    /\ map \in StepMaps
    /\ pos \in {c \in Cells : TileIsTraversable(map[c])}
    /\ pending_moves \in SeqsUpTo(Directions, MaxMoves)
    /\ movement_active \in BOOLEAN
    /\ next_step_at \in {None, Some(0), Some(2 * TickRate)}
    /\ events = <<>>
    /\ completed = <<>>
    /\ counter = 0
    /\ current_target = None
    /\ logs = <<>>
    /\ chat_history = <<>>
    /\ tool_callbacks = <<>>
    /\ log_callbacks = <<>>
    /\ pending_tool_executions = <<>>
    /\ agent_running = FALSE
    /\ should_continue_execution = FALSE
    /\ llm_status = FALSE
    /\ accumulated_time = 0
    /\ now = 0
    /\ rounds = <<>>
    /\ pc = "idle"
    /\ cur = None
    /\ draining = <<>>
    /\ call_clock = 0
    /\ cancels = 0
    /\ started = 0
    /\ dispatched = {}
    /\ proposed = 0
    /\ removed = {}

stepRest == <<events, completed, counter, current_target, chat_history,
              pending_tool_executions, accumulated_time, pc, cur, draining, call_clock,
              handoffVars, flagVars, historyVars>>

\* agent.process_movement_step(&mut map)
StepProcess ==
    /\ LET r == ProcessMovementStep(AgentFields, pos, map)
       IN  /\ pos' = r.pos
           /\ map' = r.map
           /\ pending_moves' = r.agent.pending_moves
           /\ movement_active' = r.agent.movement_active
           /\ next_step_at' = r.agent.next_step_at
           /\ logs' = r.agent.logs
    /\ UNCHANGED <<now, stepRest>>

\* agent.execute_move_step(d, &mut map)
StepExecute(d) ==
    /\ Len(logs) < MaxLog
    /\ LET e == ExecuteMoveStep(d, pos, map, logs)
       IN  /\ pos' = e.pos
           /\ map' = e.map
           /\ logs' = e.logs
    /\ UNCHANGED <<now, pending_moves, movement_active, next_step_at, stepRest>>

\* Time passes
StepWait ==
    /\ now < 2 * TickRate
    /\ now' = now + TickRate
    /\ UNCHANGED <<map, pos, pending_moves, movement_active, next_step_at, logs, stepRest>>

StepNext ==
    \/ StepProcess
    \/ \E d \in Directions : StepExecute(d)
    \/ StepWait

StepSpec == StepInit /\ [][StepNext]_vars

----------------------------------------------------------------------------
(* Properties *)

LiveIds == {events[i].id : i \in 1..Len(events)}
CompletedIds == {completed[i].id : i \in 1..Len(completed)}
Failed(id) == \E i \in 1..Len(completed) : completed[i].id = id /\ ~completed[i].result.ok
InHand(id) == IsSome(cur) /\ Unwrap(cur).event.id = id
Live(p) == Range(p.event_ids) \cap LiveIds # {}

\* C1: complete is idempotent: whatever operations are called, the outcome log
\* holds at most one entry for an id.
C1_CompleteIdempotent ==
    \A i, j \in 1..Len(completed) : completed[i].id = completed[j].id => i = j

\* C2: cancellation by subject removes only Pending actions: no action is
\* removed by it while Processing.
C2_CancelRemovesOnlyPending == \A r \in removed : r.status = "Pending"

\* C3: once step k of a dispatched movement sequence has failed, no later step
\* of the sequence is in the live set, in the hands of the tick driver or in
\* the outcome log; and no action removed by cancellation while Pending is.
C3_LaterStepsNeverRun ==
    /\ \A d \in dispatched : \A k, j \in 1..Len(d.event_ids) :
          (k < j /\ Failed(d.event_ids[k])) =>
             /\ d.event_ids[j] \notin LiveIds
             /\ d.event_ids[j] \notin CompletedIds
             /\ ~InHand(d.event_ids[j])
    /\ \A r \in removed : r.status = "Pending" =>
          r.id \notin LiveIds /\ r.id \notin CompletedIds /\ ~InHand(r.id)

C3_Witness ==
    /\ pc = "idle"
    /\ \E d \in dispatched :
          /\ Len(d.event_ids) = 2
          /\ Failed(d.event_ids[1])
          /\ [id |-> d.event_ids[2], status |-> "Pending"] \in removed

\* C4: at most one round is outstanding at any moment.
C4_AtMostOneRound == Len(rounds) <= 1

\* C5: every tool call that is dispatched comes from a round started after the
\* last user cancellation.
C5_NoStaleDispatch == \A d \in dispatched : d.epoch = d.at

\* C6: the tool call handed to the coordinator carries the arguments parsed
\* from the argument text of the last tool call of the stream alone.
C6_LastCallOnly ==
    \A i \in 1..Len(tool_callbacks) :
       tool_callbacks[i].args = InjectAgentId(ParseArgs(tool_callbacks[i].own), AgentId)

AtEdge(d, p) ==
    \/ d = "up" /\ p[2] = 0
    \/ d = "left" /\ p[1] = 0
    \/ d = "down" /\ p[2] = MapH - 1
    \/ d = "right" /\ p[1] = MapW - 1

\* C7: a move step executed towards the map edge the agent stands on fails
\* with the edge-of-map marker, leaves position and map unchanged and logs no
\* movement entry.
C7_EdgeMoveFails ==
    [][(pc = "execute" /\ Unwrap(cur).event.event.kind = "AgentMove"
          /\ AtEdge(Unwrap(cur).event.event.direction, pos))
       => /\ Unwrap(cur').result = Err(ErrEdge)
          /\ pos' = pos
          /\ map' = map
          /\ \A i \in (Len(logs) + 1)..Len(logs') : logs'[i].kind # "Movement"]_vars

\* C8: after a move step that succeeds the agent is in bounds on a traversable
\* cell; after one that fails its position is what it was before the step.
C8_PositionAfterStep ==
    [][pc = "execute"
       => IF Unwrap(cur').result.ok
          THEN InBounds(pos'[1], pos'[2]) /\ IsTraversable(map', pos'[1], pos'[2])
          ELSE pos' = pos]_vars

C8_Witness ==
    /\ \E i \in 1..Len(completed) : completed[i].result.ok
    /\ \E j \in 1..Len(completed) : completed[j].result = Err(ErrBlocked)
    /\ \E k \in 1..Len(logs) : logs[k].kind = "Movement"

\* C9: the poll removes a pending execution if and only if none of its ids is
\* in the live set, appending one tool result for each one it removes; no other
\* step removes a pending execution.
C9_ResolvedIffNoneLive ==
    [][/\ \A p \in Range(pending_tool_executions) :
             p \notin Range(pending_tool_executions') =>
                pc = "dispatch" /\ draining = <<>> /\ ~Live(p)
       /\ (pc = "dispatch" /\ draining = <<>>) =>
             /\ \A p \in Range(pending_tool_executions) :
                   ~Live(p) => p \notin Range(pending_tool_executions')
             /\ Len(chat_history') - Len(chat_history)
                   = Len(pending_tool_executions) - Len(pending_tool_executions')]_vars

C9_Witness ==
    /\ pc = "input"
    /\ \E p \in Range(pending_tool_executions) :
          /\ Live(p)
          /\ Range(p.event_ids) \ LiveIds # {}

\* C10: every registered pending execution is eventually resolved: it is
\* removed and its tool result is in the chat history.
C10_EventuallyResolved ==
    \A id \in 0..(MaxCalls - 1) :
       (\E p \in Range(pending_tool_executions) : p.tool_call_id = id)
          ~> /\ ~(\E p \in Range(pending_tool_executions) : p.tool_call_id = id)
             /\ \E i \in 1..Len(chat_history) :
                   /\ chat_history[i].role = "tool"
                   /\ chat_history[i].tool_call_id = Some(id)
                   /\ chat_history[i].content \in {"(Errors)", "(Completed successfully)"}

C10_Witness ==
    /\ pending_tool_executions = <<>>
    /\ \E i \in 1..Len(chat_history) : chat_history[i].content = "(Errors)"
    /\ \E d \in dispatched : Len(d.event_ids) = 2 /\ Failed(d.event_ids[2])

UserMessages == {i \in 1..Len(chat_history) : chat_history[i].role = "user"}

\* C11: a continuation round is started only when no pending execution is
\* registered, the live set is empty and the tick driver holds no action.
C11_ContinueOnlyWhenSettled ==
    [][(pc = "continue" /\ started' > started)
       => /\ pending_tool_executions = <<>>
          /\ events = <<>>
          /\ cur = None]_vars

C11_Witness ==
    /\ pc = "controls"
    /\ started > Cardinality(UserMessages)
    /\ \E d \in dispatched : d.event_ids # <<>> /\ Range(d.event_ids) \cap CompletedIds # {}

Synthesized(m) == m.role = "tool" /\ m.content \in {"(Errors)", "(Completed successfully)"}
Waited == {d \in dispatched : d.event_ids # <<>>}

\* C12: a pending execution is created only by the dispatch of a tool call
\* that the agent accepted with a non-empty move sequence, one fresh action per
\* step; it is removed only when none of its actions is live, its removal
\* appends exactly one tool result with its tool_call_id and name, and it is
\* never registered again: in every state the synthesized tool results and the
\* registered executions together are as many as the executions ever created.
C12_OneResultPerExecution ==
    /\ [](/\ Cardinality({i \in 1..Len(chat_history) : Synthesized(chat_history[i])})
               + Len(pending_tool_executions) = Cardinality(Waited)
          /\ \A i, j \in 1..Len(pending_tool_executions) :
                pending_tool_executions[i] = pending_tool_executions[j] => i = j)
    /\ [][/\ \A p \in Range(pending_tool_executions') \ Range(pending_tool_executions) :
                /\ pc = "dispatch" /\ draining # <<>> /\ agent_running
                /\ HandleToolCall(Head(draining).name, Head(draining).args, pos,
                                  AgentFields).result.ok
                /\ p.tool_name = Head(draining).name
                /\ Len(p.event_ids) \in 1..MaxMoveSteps
                /\ Len(p.event_ids) = Len(Unwrap(Head(draining).args.steps))
                /\ \A k \in 1..Len(p.event_ids) :
                      /\ p.event_ids[k] >= counter
                      /\ \E i \in 1..Len(events') :
                            /\ events'[i].id = p.event_ids[k]
                            /\ events'[i].status = "Pending"
                            /\ events'[i].event =
                                  AgentMove(AgentId, Unwrap(Head(draining).args.steps)[k])
          /\ \A p \in Range(pending_tool_executions) :
                LET gone == {q \in Range(pending_tool_executions) :
                               /\ q \notin Range(pending_tool_executions')
                               /\ q.tool_call_id = p.tool_call_id}
                    added == {i \in (Len(chat_history) + 1)..Len(chat_history') :
                                /\ Synthesized(chat_history'[i])
                                /\ chat_history'[i].tool_call_id = Some(p.tool_call_id)
                                /\ chat_history'[i].name = p.tool_name}
                IN  /\ Cardinality(added) = Cardinality(gone)
                    /\ p \in gone => ~Live(p)]_vars

C12_Witness ==
    /\ pending_tool_executions = <<>>
    /\ Cardinality(Waited) = 2
    /\ Cardinality({i \in 1..Len(chat_history) : Synthesized(chat_history[i])}) = 2

OwnClean(p) == \A id \in Range(p.event_ids) : id \in CompletedIds /\ ~Failed(id)

\* C13: the tool result synthesized for a resolved pending execution declares
\* success exactly when every one of its own actions has a successful outcome
\* (none failed, none was cancelled), whatever earlier tool calls went through.
C13_OwnOutcomeOnly ==
    [][\A p \in Range(pending_tool_executions) \ Range(pending_tool_executions') :
          \E i \in (Len(chat_history) + 1)..Len(chat_history') :
             chat_history'[i] =
                Message("tool", Some(p.tool_call_id), p.tool_name,
                        IF OwnClean(p) THEN "(Completed successfully)" ELSE "(Errors)")]_vars

\* The first tool call failed and was resolved; the second one, made by the
\* continuation round, moved the agent and is resolved with errors.
C13_Witness ==
    /\ pending_tool_executions = <<>>
    /\ Len(completed) = 2
    /\ ~completed[1].result.ok
    /\ completed[2].result.ok
    /\ Cardinality(UserMessages) = 1
    /\ \E i, j \in 1..Len(chat_history) :
          /\ i < j
          /\ Synthesized(chat_history[i])
          /\ chat_history[j].role = "assistant"
          /\ \E k \in (j + 1)..Len(chat_history) :
                /\ chat_history[k].tool_call_id = chat_history[j].tool_call_id
                /\ chat_history[k].tool_call_id # chat_history[i].tool_call_id
                /\ chat_history[k].role = "tool"
                /\ chat_history[k].content = "(Errors)"

QLists == SeqsUpTo({AgentMove(AgentId, "up"), Delay(1)}, 2)

\* C14: submit_sequence appends one Pending action per input action, in input
\* order, with consecutive fresh ids, step k (from 0) due at the time of the
\* call plus k times the interval (also for the interval 0), and returns
\* these ids in order.
C14_SequenceTimes ==
    [][\A list \in QLists, d \in {0, MoveInterval} :
          QSubmitSequence(list, d) =>
             /\ Len(events') = Len(events) + Len(list)
             /\ SubSeq(events', 1, Len(events)) = events
             /\ \A k \in 1..Len(list) :
                   events'[Len(events) + k] =
                      [id |-> counter + k - 1, event |-> list[k],
                       execute_at |-> now + (k - 1) * d, status |-> "Pending"]
             /\ SubmitSequence(events, counter, list, now, d).ids =
                   [k \in 1..Len(list) |-> counter + k - 1]
             /\ counter' = counter + Len(list)]_vars

C14_Witness ==
    /\ Len(events) = 2
    /\ events[1].id = 0 /\ events[2].id = 1
    /\ events[1].execute_at = 1
    /\ events[2].execute_at = 1 + MoveInterval
    /\ events[1].status = "Pending" /\ events[2].status = "Pending"

ReadyPending == {i \in 1..Len(events) :
                   events[i].status = "Pending" /\ events[i].execute_at <= now}

\* C15: pop_ready returns None and changes nothing when no Pending action is
\* due; otherwise it returns the due Pending action with the smallest id,
\* marked Processing, keeps it in the live set with that status, and leaves
\* the other actions as they were and in the same relative order.
C15_PopReadyEarliest ==
    [][QPopReady =>
         LET ret == PopReady(events, now).event
         IN  IF ReadyPending = {}
             THEN ret = None /\ events' = events
             ELSE \E i \in ReadyPending :
                    /\ \A j \in ReadyPending : events[i].id <= events[j].id
                    /\ ret = Some([events[i] EXCEPT !.status = "Processing"])
                    /\ Len(events') = Len(events)
                    /\ \E k \in 1..Len(events') : events'[k] = Unwrap(ret)
                    /\ SelectSeq(events', LAMBDA e : e.id # events[i].id)
                          = SelectSeq(events, LAMBDA e : e.id # events[i].id)]_vars

C15_Witness ==
    /\ Len(events) = 2
    /\ events[1].id = 1 /\ events[1].status = "Pending" /\ events[1].execute_at <= now
    /\ events[2].id = 0 /\ events[2].status = "Processing"
    /\ completed = <<>>

\* C16: an id is returned by pop_ready at most once and never after complete:
\* the ids of the live set are distinct; pop_ready returns only an action that
\* is Pending and leaves it Processing; a Processing action never becomes
\* Pending again; complete(id) takes the id out of the live set; and an id
\* that was given out and is no longer live never is live again.
C16_PoppedAtMostOnce ==
    /\ [](\A i, j \in 1..Len(events) : events[i].id = events[j].id => i = j)
    /\ [][/\ \A i \in 1..Len(events), j \in 1..Len(events') :
                (events'[j].id = events[i].id /\ events[i].status = "Processing")
                   => events'[j].status = "Processing"
          /\ \A id \in 0..(counter - 1) : id \notin LiveIds => id \notin LiveIds'
          /\ QPopReady =>
                LET ret == PopReady(events, now).event
                IN  IsSome(ret) =>
                       /\ \E i \in 1..Len(events) :
                             events[i].id = Unwrap(ret).id /\ events[i].status = "Pending"
                       /\ \A j \in 1..Len(events') :
                             events'[j].id = Unwrap(ret).id => events'[j].status = "Processing"
          /\ \A id \in QIds, r \in QResults : QComplete(id, r) => id \notin LiveIds']_vars

C16_Witness ==
    /\ Len(events) = 1
    /\ events[1].id = 1 /\ events[1].status = "Processing" /\ events[1].execute_at <= now
    /\ CompletedIds = {0}

NewIds == {events'[j].id : j \in 1..Len(events')} \ LiveIds

\* C17: ids come from the one process-wide counter, which no operation of the
\* queue, clear included, lowers: every live id is below the counter, every
\* newly submitted id is at or above the counter of before and below the one
\* of after, the counter advances by exactly the number of new ids, and new
\* ids enter the queue in increasing order.
C17_IdsNeverReused ==
    /\ [](\A i \in 1..Len(events) : events[i].id < counter)
    /\ [][/\ counter' >= counter
          /\ \A id \in NewIds : id >= counter /\ id < counter'
          /\ counter' - counter = Cardinality(NewIds)
          /\ \A j, k \in 1..Len(events') :
                (j < k /\ events'[j].id \in NewIds /\ events'[k].id \in NewIds)
                   => events'[j].id < events'[k].id
          /\ QClear => counter' = counter /\ events' = <<>> /\ completed' = <<>>]_vars

C17_Witness ==
    /\ Len(events) = 1
    /\ events[1].id = 1
    /\ counter = 2
    /\ completed = <<>>

\* C18: a call of a tool other than get_map_state and think whose agent_id is
\* missing or is not the agent's id returns an error and leaves position,
\* queued moves, target hint and log as they were.
C18_WrongAgentNoChange ==
    [][\A name \in ToolNames \ {"get_map_state", "think"}, args \in ToolArgs :
          (args.agent_id # Some(AgentId) /\ ToolCall(name, args)) =>
             /\ ~HandleToolCall(name, args, pos, AgentFields).result.ok
             /\ pos' = pos
             /\ pending_moves' = pending_moves
             /\ movement_active' = movement_active
             /\ current_target' = current_target
             /\ logs' = logs
             /\ events' = events]_vars

AcceptableSteps(args) ==
    /\ args.kind = "Object"
    /\ IsSome(args.steps)
    /\ Len(Unwrap(args.steps)) \in 1..5
    /\ \A k \in 1..Len(Unwrap(args.steps)) :
          Unwrap(args.steps)[k] \in {"up", "down", "left", "right"}

\* C19: the dispatch of a move_agent call whose steps are 1 to 5 valid
\* directions submits one Pending AgentMove per step, in order, and registers
\* one pending execution with their ids; the dispatch of any other move_agent
\* call submits nothing, registers nothing, appends the assistant tool call
\* and one error tool result, and raises the continue signal.
C19_MoveAgentAccepted ==
    [][(pc = "dispatch" /\ draining # <<>> /\ agent_running
          /\ Head(draining).name = "move_agent") =>
         LET args == Head(draining).args
             steps == Unwrap(args.steps)
             ids == [k \in 1..Len(steps) |-> counter + k - 1]
         IN  IF AcceptableSteps(args)
             THEN /\ events' = events \o
                        [k \in 1..Len(steps) |->
                           [id |-> ids[k], event |-> AgentMove(AgentId, steps[k]),
                            execute_at |-> now + (k - 1) * MoveInterval,
                            status |-> "Pending"]]
                  /\ Len(pending_tool_executions') = Len(pending_tool_executions) + 1
                  /\ SubSeq(pending_tool_executions', 1, Len(pending_tool_executions))
                        = pending_tool_executions
                  /\ pending_tool_executions'[Len(pending_tool_executions')].event_ids = ids
                  /\ Len(chat_history') = Len(chat_history) + 1
             ELSE /\ events' = events
                  /\ counter' = counter
                  /\ pending_tool_executions' = pending_tool_executions
                  /\ Len(chat_history') = Len(chat_history) + 2
                  /\ chat_history'[Len(chat_history) + 1].role = "assistant"
                  /\ chat_history'[Len(chat_history) + 2].role = "tool"
                  /\ chat_history'[Len(chat_history) + 2].content = "Error"
                  /\ chat_history'[Len(chat_history) + 2].tool_call_id
                        = chat_history'[Len(chat_history) + 1].tool_call_id
                  /\ should_continue_execution']_vars

C19_Witness ==
    /\ Len(pending_tool_executions) = 1
    /\ Len(pending_tool_executions[1].event_ids) = 5
    /\ Len(events) = 5
    /\ \A k \in 1..5 : events[k].status = "Pending"

LoggedByRound == (Len(log_callbacks) + 1)..Len(log_callbacks')

\* C20: a round whose stream ends with a transport error hands neither a
\* thinking entry nor a tool call to the coordinator.
C20_StreamErrorEmptyRound ==
    [][(/\ pc = "idle"
        /\ Len(rounds') < Len(rounds)
        /\ \E k \in LoggedByRound : log_callbacks'[k] = Log("Error", "Stream error"))
       => /\ tool_callbacks' = tool_callbacks
          /\ \A k \in LoggedByRound :
                log_callbacks'[k].kind \notin {"AgentThinking", "ToolCall"}]_vars

\* The tool call of a round whose stream failed has been dispatched and a
\* continuation round has been started after it.
C20_Witness ==
    /\ \E k \in 1..Len(logs) : logs[k] = Log("Error", "Stream error")
    /\ Cardinality(UserMessages) = 1
    /\ Cardinality(dispatched) = 1
    /\ started = 2

\* C21: the dispatch of a tool call whose argument text did not parse (the
\* arguments are Value::Null) ends with an error tool result for it, whatever
\* the tool.
C21_MalformedArgsFail ==
    [][(pc = "dispatch" /\ draining # <<>> /\ agent_running
          /\ Head(draining).args = Null) =>
         /\ ~HandleToolCall(Head(draining).name, Null, pos, AgentFields).result.ok
         /\ chat_history'[Len(chat_history')].role = "tool"
         /\ chat_history'[Len(chat_history')].content = "Error"]_vars

\* A think call with malformed arguments has got a successful tool result
C21_Witness ==
    \E i \in 1..Len(chat_history) :
       /\ chat_history[i].role = "tool"
       /\ chat_history[i].name = "think"
       /\ chat_history[i].content = "Recorded thoughts"

\* C22: the Escape step leaves the live set and the completed log as they
\* were, and an action leaves the live set only by being completed or through
\* the abort branch of process_tick.
C22_EscLeavesScheduler ==
    [][/\ cancels' # cancels => events' = events /\ completed' = completed
       /\ \A id \in LiveIds \ LiveIds' :
             \/ id \in CompletedIds'
             \/ pc = "cancel" /\ \E r \in removed' : r.id = id]_vars

\* Every move was submitted before Escape, and one was executed after it
C22_Witness ==
    /\ cancels = 1
    /\ \A d \in dispatched : d.epoch = 0
    /\ \E i \in 1..Len(logs) : \E j \in (i + 1)..Len(logs) :
          /\ logs[i].text = "WARN: Execution cancelled by user (ESC)"
          /\ logs[j].kind = "Movement"

\* The dispatch of a query tool call answers with a successful tool result,
\* submits nothing, registers no pending execution and leaves position, map
\* and queued moves alone; only get_bearings may change the target hint.
QueryDispatchPure(cb) ==
    /\ HandleToolCall(cb.name, cb.args, pos, AgentFields).result.ok
    /\ chat_history'[Len(chat_history')].role = "tool"
    /\ chat_history'[Len(chat_history')].name = cb.name
    /\ chat_history'[Len(chat_history')].content # "Error"
    /\ events' = events
    /\ counter' = counter
    /\ completed' = completed
    /\ pending_tool_executions' = pending_tool_executions
    /\ pos' = pos
    /\ map' = map
    /\ pending_moves' = pending_moves
    /\ movement_active' = movement_active
    /\ cb.name # "get_bearings" => current_target' = current_target

Neighbour(d, p) ==
    CASE d = "up" -> <<p[1], p[2] - 1>>
      [] d = "down" -> <<p[1], p[2] + 1>>
      [] d = "left" -> <<p[1] - 1, p[2]>>
      [] d = "right" -> <<p[1] + 1, p[2]>>

\* A move from p in direction d leaves the map or enters a blocked cell
MoveIllegal(d, p, m) ==
    LET n == Neighbour(d, p)
    IN  ~InBounds(n[1], n[2]) \/ ~IsTraversable(m, n[1], n[2])

CompletedAt(id) == IdPos(completed, id)

\* C24: within one submitted sequence a step is popped or has an outcome only
\* after every earlier step has a successful outcome recorded before it (so the
\* outcomes are successes followed by at most one failure and nothing after
\* it); a step that fails is one whose own move is illegal where the agent
\* stands, and its outcome is recorded under its own id.
C24_OutcomesInSubmissionOrder ==
    /\ [](\A d \in dispatched : \A k, l \in 1..Len(d.event_ids) :
            (k < l /\ (d.event_ids[l] \in CompletedIds \/ InHand(d.event_ids[l]))) =>
               /\ d.event_ids[k] \in CompletedIds
               /\ completed[CompletedAt(d.event_ids[k])].result.ok
               /\ d.event_ids[l] \in CompletedIds =>
                     CompletedAt(d.event_ids[k]) < CompletedAt(d.event_ids[l]))
    /\ [][/\ (pc = "execute" /\ ~Unwrap(cur').result.ok) =>
                /\ MoveIllegal(Unwrap(cur).event.event.direction, pos, map)
                /\ Unwrap(cur').event = Unwrap(cur).event
          /\ pc = "complete" =>
                completed' = Append(completed, [id |-> Unwrap(cur).event.id,
                                                result |-> Unwrap(cur).result])]_vars

\* Both steps of a sequence were ready in one tick: the first has succeeded
\* and the second, popped in the same tick, has failed
C24_Witness ==
    /\ pc = "complete"
    /\ accumulated_time = 2 * TickRate
    /\ \E d \in dispatched :
          /\ Len(d.event_ids) = 2
          /\ d.event_ids[1] \in CompletedIds
          /\ InHand(d.event_ids[2])
          /\ Unwrap(cur).event.execute_at = now
          /\ ~Unwrap(cur).result.ok

ProcessingAt == {i \in 1..Len(events) : events[i].status = "Processing"}

\* C25: at most one live action is Processing, it is the one process_tick has
\* in hand, and outside the body of process_tick's loop (so whenever
\* process_tick has returned) no live action is Processing.
C25_OneProcessingNoneAfterTick ==
    /\ Cardinality(ProcessingAt) <= 1
    /\ \A i \in ProcessingAt : InHand(events[i].id)
    /\ pc \notin {"execute", "cancel", "complete"} => ProcessingAt = {}

\* One action is Processing while another of the queue is still Pending
C25_Witness ==
    /\ pc = "complete"
    /\ Cardinality(ProcessingAt) = 1
    /\ \E i \in 1..Len(events) : events[i].status = "Pending"

TickPhases == {"tick", "execute", "cancel", "complete"}

\* The Pending actions of the live set whose time has not come
Waiting == {i \in 1..Len(events) :
              events[i].status = "Pending" /\ events[i].execute_at > now}

\* process_tick returns: always, and with no Pending action that is due
TickDrainsReady ==
    /\ (pc \in TickPhases) ~> (pc = "drain")
    /\ [][(pc = "tick" /\ accumulated_time' # accumulated_time) =>
            /\ now' = now
            /\ ReadyPending' = {}]_vars

\* C26 (as stated): process_tick terminates, when it returns no live action
\* is both Pending and due, and no step of it removes or changes a Pending
\* action whose time has not come.
C26_TickKeepsWaiting ==
    /\ TickDrainsReady
    /\ [][(pc \in TickPhases) =>
            \A i \in Waiting : events[i] \in Range(events')]_vars

\* C26 (amended): process_tick terminates, when it returns no live action is
\* both Pending and due, and a Pending action whose time has not come is left
\* unchanged by every step of it except the abort branch, which removes the
\* moves of the agent whose move failed.
C26_TickKeepsWaitingUnlessAborted ==
    /\ TickDrainsReady
    /\ [][(pc \in TickPhases) =>
            \A i \in Waiting :
               \/ events[i] \in Range(events')
               \/ /\ pc = "cancel"
                  /\ events[i].event.kind = "AgentMove"
                  /\ events[i].event.agent_id = Unwrap(cur).event.event.agent_id
                  /\ ~Unwrap(cur).result.ok]_vars

\* process_tick has returned after executing a move, and a later move of the
\* queue still waits for its time
C26_Witness ==
    /\ pc = "drain"
    /\ completed # <<>>
    /\ Waiting # {}
    /\ ReadyPending = {}

\* C27: a move step that succeeds puts the agent on the adjacent cell in the
\* step's direction, makes the cell it left a Trail cell, changes no other
\* cell and appends exactly one log entry, a movement entry; a Trail cell is
\* traversable and has the name of grass.
C27_SuccessfulStepMovesOneCell ==
    /\ [](TileIsTraversable("Trail") /\ TileName("Trail") = TileName("Grass"))
    /\ [][(pc = "execute" /\ Unwrap(cur).event.event.kind = "AgentMove"
             /\ Unwrap(cur').result.ok) =>
            /\ pos' = Neighbour(Unwrap(cur).event.event.direction, pos)
            /\ pos' # pos
            /\ map' = [map EXCEPT ![pos] = "Trail"]
            /\ logs' = Append(logs, Log("Movement",
                                        Unwrap(cur).event.event.direction))]_vars

\* A step towards the edge the agent stands on has succeeded: the agent is
\* where it was, on a Trail cell, and a movement entry was logged
C27_Witness ==
    /\ pc = "complete"
    /\ Unwrap(cur).result.ok
    /\ AtEdge(Unwrap(cur).event.event.direction, pos)
    /\ map[pos] = "Trail"
    /\ logs[Len(logs)] = Log("Movement", Unwrap(cur).event.event.direction)

StepDue == ~IsSome(next_step_at) \/ now >= Unwrap(next_step_at)

\* C28: when movement is active, the step is due and d is the first queued
\* move, process_movement_step succeeds exactly when execute_move_step(d)
\* succeeds on the same agent and map, and leaves the position and the map
\* that execute_move_step(d) leaves.
C28_StepPathsAgree ==
    [][(StepProcess /\ movement_active /\ StepDue /\ pending_moves # <<>>) =>
         LET d == Head(pending_moves)
             e == ExecuteMoveStep(d, pos, map, logs)
             r == ProcessMovementStep(AgentFields, pos, map)
         IN  /\ (r.status \in {"StepSuccess", "Completed"}) <=> e.result.ok
             /\ pos' = e.pos
             /\ map' = e.map]_vars

\* process_movement_step has executed the last queued move
C28_Witness ==
    /\ Len(logs) >= 2
    /\ logs[Len(logs)] = Log("Info", "Movement completed")
    /\ logs[Len(logs) - 1].kind = "Movement"
    /\ ~movement_active
    /\ pending_moves = <<>>
    /\ \E c \in Cells : map[c] = "Trail"

\* C29: a continuation round is started only when a tool result was appended
\* to the chat history after the last user instruction, that is during the
\* run that is to be continued.
C29_ContinueOnlyOnOwnResult ==
    [][(pc = "continue" /\ started' > started) =>
         \E i \in 1..Len(chat_history) :
            /\ chat_history[i].role = "tool"
            /\ \A j \in UserMessages : j < i]_vars

\* After a cancellation and a new instruction a continuation round was
\* started although nothing was appended since the instruction
C29_Witness ==
    /\ pc = "controls"
    /\ cancels = 1
    /\ chat_history[Len(chat_history)].role = "user"
    /\ Cardinality(UserMessages) = 2
    /\ started = 3
    /\ Synthesized(chat_history[Len(chat_history) - 1])

\* C30: a move_agent call of the agent itself that returns an error leaves the
\* queued moves, movement_active, the time of the next step and the target
\* hint as they were.
C30_RejectedMoveKeepsState ==
    [][\A args \in ToolArgs :
          (/\ args.agent_id = Some(AgentId)
           /\ ToolCall("move_agent", args)
           /\ ~HandleToolCall("move_agent", args, pos, AgentFields).result.ok) =>
             /\ pending_moves' = pending_moves
             /\ movement_active' = movement_active
             /\ next_step_at' = next_step_at
             /\ current_target' = current_target]_vars

\* The only call so far was a rejected move_agent, and the hint is its target
C30_Witness ==
    /\ logs = <<Log("ToolResultErr", "move_agent")>>
    /\ pending_moves = <<>>
    /\ ~movement_active
    /\ current_target = Some(<<1, 0>>)

====
